---- MODULE Spec2Model ----
(***************************************************************************)
(* Model of ts/src/utils/rpc.ts: getMultipleAccounts and                   *)
(* getMultipleAccountsCore, the batched account fetch over a JSON-RPC      *)
(* connection.                                                             *)
(*                                                                         *)
(* JavaScript runs each synchronous section to completion, so one action   *)
(* is one such section: Call is getMultipleAccounts up to its await (every *)
(* getMultipleAccountsCore it starts runs up to its own await of           *)
(* _rpcRequest), and Respond(i) is the continuation of the i-th            *)
(* getMultipleAccountsCore after its _rpcRequest settles, together with    *)
(* the promise reactions that follow it (Promise.all, the awaits).         *)
(*                                                                         *)
(* Optional values (undefined / null in the source) are sequences of       *)
(* length 0 or 1.  Strings the code builds or parses are sequences of      *)
(* one-character strings; string literals of the code are single tokens.   *)
(* A PublicKey is its byte sequence, scaled from 32 bytes to 2.            *)
(***************************************************************************)
EXTENDS Integers, Sequences, FiniteSets, TLC

VARIABLES
    connection,   \* the Connection: its default commitment
    ledger,       \* the remote's entry for every key (fixed: no remote change)
    publicKeys,   \* argument of getMultipleAccounts
    commitment,   \* argument of getMultipleAccounts (optional)
    calls,        \* number of getMultipleAccounts calls started so far
    requests,     \* the _rpcRequest calls issued by the current call, in order
    core,         \* the promise of every getMultipleAccountsCore call
    outcome,      \* the promise getMultipleAccounts returned
    answers,      \* how the remote answered every request of the first call
    previous      \* what the caller got from the call before: a list or a failure

vars == <<connection, ledger, publicKeys, commitment, calls, requests,
          core, outcome, answers, previous>>

----------------------------------------------------------------------------
(* Bounds and constants *)

GET_MULTIPLE_ACCOUNTS_LIMIT == 99

\* the input list needs at most this many batches
MaxBatches == 2

\* getMultipleAccounts is called a first and a second time
CallIds == {1, 2}

Null == <<>>
Some(x) == <<x>>

Min(a, b) == IF a < b THEN a ELSE b

----------------------------------------------------------------------------
(* Base-58 (PublicKey.toBase58, new PublicKey(string)) *)

Base58Alphabet ==
    << "1","2","3","4","5","6","7","8","9",
       "A","B","C","D","E","F","G","H","J","K","L","M","N","P","Q","R","S","T",
       "U","V","W","X","Y","Z",
       "a","b","c","d","e","f","g","h","i","j","k","m","n","o","p","q","r","s",
       "t","u","v","w","x","y","z" >>

RECURSIVE BytesValue(_)
BytesValue(bytes) ==
    IF bytes = <<>> THEN 0
    ELSE 256 * BytesValue(SubSeq(bytes, 1, Len(bytes) - 1)) + bytes[Len(bytes)]

RECURSIVE LeadingZeros(_)
LeadingZeros(bytes) ==
    IF bytes = <<>> \/ bytes[1] # 0 THEN 0 ELSE 1 + LeadingZeros(Tail(bytes))

RECURSIVE Base58Digits(_)
Base58Digits(n) ==
    IF n = 0 THEN <<>>
    ELSE Append(Base58Digits(n \div 58), Base58Alphabet[(n % 58) + 1])

\* one "1" per leading zero byte, then the digits of the remaining number
toBase58(key) ==
    [i \in 1..LeadingZeros(key) |-> "1"] \o Base58Digits(BytesValue(key))

\* the digit every character of the alphabet stands for
Base58Table ==
    [c \in {Base58Alphabet[i] : i \in 1..58} |->
        (CHOOSE i \in 1..58 : Base58Alphabet[i] = c) - 1]

Base58Index(c) == Base58Table[c]

RECURSIVE Base58Value(_)
Base58Value(str) ==
    IF str = <<>> THEN 0
    ELSE 58 * Base58Value(SubSeq(str, 1, Len(str) - 1)) + Base58Index(str[Len(str)])

RECURSIVE LeadingOnes(_)
LeadingOnes(str) ==
    IF str = <<>> \/ str[1] # "1" THEN 0 ELSE 1 + LeadingOnes(Tail(str))

RECURSIVE ValueBytes(_)
ValueBytes(n) ==
    IF n = 0 THEN <<>> ELSE Append(ValueBytes(n \div 256), n % 256)

\* new PublicKey(owner)
PublicKeyOf(str) ==
    [i \in 1..LeadingOnes(str) |-> 0] \o ValueBytes(Base58Value(str))

----------------------------------------------------------------------------
(* Base-64 (Buffer.from(data[0], "base64")) *)

Base64Alphabet ==
    << "A","B","C","D","E","F","G","H","I","J","K","L","M","N","O","P","Q","R",
       "S","T","U","V","W","X","Y","Z",
       "a","b","c","d","e","f","g","h","i","j","k","l","m","n","o","p","q","r",
       "s","t","u","v","w","x","y","z",
       "0","1","2","3","4","5","6","7","8","9","+","/" >>

\* the six bits every character of the alphabet stands for
Base64Table ==
    [c \in {Base64Alphabet[i] : i \in 1..64} |->
        (CHOOSE i \in 1..64 : Base64Alphabet[i] = c) - 1]

Base64Index(c) == Base64Table[c]

\* the characters before the padding
RECURSIVE Unpadded(_)
Unpadded(str) ==
    IF str = <<>> \/ str[1] = "=" THEN <<>>
    ELSE <<str[1]>> \o Unpadded(Tail(str))

\* up to four characters give up to three bytes
QuadBytes(q) ==
    LET s(i) == IF i <= Len(q) THEN Base64Index(q[i]) ELSE 0
        v    == ((s(1) * 64 + s(2)) * 64 + s(3)) * 64 + s(4)
        all  == << v \div 65536, (v \div 256) % 256, v % 256 >>
    IN  SubSeq(all, 1, (Len(q) * 6) \div 8)

RECURSIVE Base64Bytes(_)
Base64Bytes(chars) ==
    IF chars = <<>> THEN <<>>
    ELSE QuadBytes(SubSeq(chars, 1, Min(4, Len(chars))))
         \o Base64Bytes(SubSeq(chars, 5, Len(chars)))

BufferFromBase64(str) == Base64Bytes(Unpadded(str))

----------------------------------------------------------------------------
(* Values *)

\* a promise: pending, fulfilled with a value, or rejected with a reason
Pending      == [state |-> "pending",   value |-> <<>>, reason |-> Null]
Fulfilled(v) == [state |-> "fulfilled", value |-> v,    reason |-> Null]
Rejected(e)  == [state |-> "rejected",  value |-> <<>>, reason |-> Some(e)]
\* a getMultipleAccountsCore call that was never started
Idle         == [state |-> "idle",      value |-> <<>>, reason |-> Null]
\* before getMultipleAccounts is called
NoCall       == [state |-> "none",      value |-> <<>>, reason |-> Null]

Settled(p) == p.state \in {"fulfilled", "rejected"}

\* the failure of assert(...)
AssertionError ==
    [name |-> "AssertionError",
     message |-> <<"The expression evaluated to a falsy value">>]

\* what _rpcRequest rejects with when the transport fails
TransportError == [name |-> "FetchError", message |-> <<"request failed">>]

\* publicKeys[idx] for an idx past the end of the array
Undefined == <<>>

----------------------------------------------------------------------------
(* chunks(array, size) of utils/common.js: groups of at most size elements,
   in order, none of them empty *)

RECURSIVE chunks(_, _)
chunks(array, size) ==
    IF array = <<>> THEN <<>>
    ELSE <<SubSeq(array, 1, Min(size, Len(array)))>>
         \o chunks(SubSeq(array, size + 1, Len(array)), size)

----------------------------------------------------------------------------
(* getMultipleAccountsCore *)

\* variant: the connection's default wins over the per-call override
EffectiveCommitmentDefaultFirst(commitmentOverride, conn) ==
    IF conn.commitment # Null THEN conn.commitment ELSE commitmentOverride

\* const commitment = commitmentOverride ?? connection.commitment
EffectiveCommitment(commitmentOverride, conn) ==
    IF commitmentOverride # Null THEN commitmentOverride ELSE conn.commitment

\* the args array: the base-58 keys, then { commitment } when there is one
RpcArgs(keys, commitmentOverride, conn) ==
    LET c == EffectiveCommitment(commitmentOverride, conn)
    IN  << [i \in 1..Len(keys) |-> toBase58(keys[i])] >>
        \o (IF c # Null THEN << [commitment |-> c[1]] >> ELSE <<>>)

RpcRequest(keys, commitmentOverride, conn) ==
    [method |-> "getMultipleAccounts",
     args   |-> RpcArgs(keys, commitmentOverride, conn)]

\* Array.prototype.join
RECURSIVE Join(_, _)
Join(strs, sep) ==
    IF strs = <<>> THEN <<>>
    ELSE IF Len(strs) = 1 THEN strs[1]
    ELSE LET half == Len(strs) \div 2
         IN  Join(SubSeq(strs, 1, half), sep) \o sep
             \o Join(SubSeq(strs, half + 1, Len(strs)), sep)

\* variant: the message lists the keys of the whole input list
ErrorMessageAllKeys(keys, remoteMessage) ==
    <<"failed to get info about accounts ">>
    \o Join([i \in 1..Len(publicKeys) |-> toBase58(publicKeys[i])], <<",", " ">>)
    \o <<": ">>
    \o remoteMessage

\* the message of the Error thrown for a response with an error object
ErrorMessage(keys, remoteMessage) ==
    <<"failed to get info about accounts ">>
    \o Join([i \in 1..Len(keys) |-> toBase58(keys[i])], <<",", " ">>)
    \o <<": ">>
    \o remoteMessage

RpcError(keys, remoteMessage) ==
    [name |-> "Error", message |-> ErrorMessage(keys, remoteMessage)]

\* the value built from a present entry
DecodeAccount(account) ==
    [executable |-> account.executable,
     owner      |-> PublicKeyOf(account.owner),
     lamports   |-> account.lamports,
     data       |-> BufferFromBase64(account.data[1])]

\* assert(data[1] === "base64")
EncodingOk(account) == account.data[2] = "base64"

\* one pass of the for loop over res.result.value: null is pushed as it
\* is, a present entry is asserted and decoded.  Inside the loop
\* res.result.value is an array, so value is never left null and "Invalid
\* response" is never thrown.
DecodeEntry(account) ==
    IF account = Null THEN Null ELSE Some(DecodeAccount(account[1]))

\* variant: an entry whose assert fails is pushed as null and the loop goes on
DecodeLoopSkipping(value) ==
    [thrown   |-> Null,
     accounts |-> [idx \in 1..Len(value) |->
                     IF value[idx] # Null /\ ~EncodingOk(value[idx][1]) THEN Null
                     ELSE DecodeEntry(value[idx])]]

\* the whole loop: it throws at the first present entry whose assert fails,
\* with the accounts pushed before it; otherwise every entry is pushed
DecodeLoop(value) ==
    LET failing == { idx \in 1..Len(value) :
                       value[idx] # Null /\ ~EncodingOk(value[idx][1]) }
        stop    == IF failing = {} THEN Len(value) + 1
                   ELSE CHOOSE idx \in failing : \A j \in failing : idx <= j
    IN  [thrown   |-> IF failing = {} THEN Null ELSE Some(AssertionError),
         accounts |-> [idx \in 1..(stop - 1) |-> DecodeEntry(value[idx])]]

\* variant: every record is paired with the first key
MapAccountsFirstKey(accounts, keys) ==
    [idx \in 1..Len(accounts) |->
        IF accounts[idx] = Null THEN Null
        ELSE Some([publicKey |-> IF keys # <<>> THEN keys[1] ELSE Undefined,
                   account   |-> accounts[idx][1]])]

\* accounts.map((account, idx) => ...)
MapAccounts(accounts, keys) ==
    [idx \in 1..Len(accounts) |->
        IF accounts[idx] = Null THEN Null
        ELSE Some([publicKey |-> IF idx <= Len(keys) THEN keys[idx] ELSE Undefined,
                   account   |-> accounts[idx][1]])]

\* getMultipleAccountsCore after the await of _rpcRequest: how its promise
\* settles.  res.rejected: _rpcRequest rejected; otherwise res is the
\* response envelope { error?, result? }.
CoreSettle(keys, res) ==
    IF res.rejected # Null THEN Rejected(res.rejected[1])
    ELSE IF res.error # Null THEN Rejected(RpcError(keys, res.error[1].message))
    ELSE IF res.result = Null THEN Rejected(AssertionError)
    ELSE LET loop == DecodeLoop(res.result[1].value)
         IN  IF loop.thrown # Null THEN Rejected(loop.thrown[1])
             ELSE Fulfilled(MapAccounts(loop.accounts, keys))

----------------------------------------------------------------------------
(* getMultipleAccounts *)

\* the key lists getMultipleAccountsCore is called with
Batches(keys) ==
    IF Len(keys) <= GET_MULTIPLE_ACCOUNTS_LIMIT THEN <<keys>>
    ELSE chunks(keys, GET_MULTIPLE_ACCOUNTS_LIMIT)

\* variant: only the first batch is started before anything is awaited
StartedCountFirstOnly(bs) == Min(1, Len(bs))

\* batches.map(...) starts getMultipleAccountsCore for every batch before
\* anything is awaited: the number of calls started
StartedCount(bs) == Len(bs)

\* Array.prototype.flat
RECURSIVE Flat(_)
Flat(results) ==
    IF results = <<>> THEN <<>> ELSE results[1] \o Flat(Tail(results))

\* variant: the rejected inputs are left out of the result
PromiseAllSkipRejected(cores, i) ==
    IF \A j \in 1..Len(cores) : Settled(cores[j])
    THEN Fulfilled([j \in 1..Len(cores) |-> cores[j].value])
    ELSE Pending

\* variant: the first input to settle settles the whole
PromiseAllRace(cores, i) ==
    IF cores[i].state = "rejected" THEN Rejected(cores[i].reason[1])
    ELSE Fulfilled(<<cores[i].value>>)

\* variant: a rejection is reported once every input has settled
PromiseAllWaitAll(cores, i) ==
    IF \E j \in 1..Len(cores) : ~Settled(cores[j]) THEN Pending
    ELSE IF \E j \in 1..Len(cores) : cores[j].state = "rejected"
    THEN Rejected(cores[CHOOSE j \in 1..Len(cores) :
                           /\ cores[j].state = "rejected"
                           /\ \A k \in 1..(j - 1) : cores[k].state # "rejected"
                       ].reason[1])
    ELSE Fulfilled([j \in 1..Len(cores) |-> cores[j].value])

\* Promise.all, still pending, when its i-th input promise settles: it
\* rejects with the reason of a rejected input at once, fulfils with the
\* values in input order once every input is fulfilled
PromiseAll(cores, i) ==
    IF cores[i].state = "rejected" THEN Rejected(cores[i].reason[1])
    ELSE IF \A j \in 1..Len(cores) : cores[j].state = "fulfilled"
    THEN Fulfilled([j \in 1..Len(cores) |-> cores[j].value])
    ELSE Pending

\* the promise of getMultipleAccounts when the i-th core promise settles
FetchSettle(keys, cores, i) ==
    IF Len(keys) <= GET_MULTIPLE_ACCOUNTS_LIMIT THEN cores[1]
    ELSE LET all == PromiseAll(cores, i)
         IN  IF all.state = "fulfilled" THEN Fulfilled(Flat(all.value)) ELSE all

----------------------------------------------------------------------------
(* The remote *)

Key1 == <<0, 1>>
Key2 == <<1, 0>>
Keys == {Key1, Key2}

EntryA ==
    [data |-> << <<"Q","Q","=","=">>, "base64" >>, owner |-> toBase58(Key2),
     executable |-> FALSE, lamports |-> 1]
EntryB ==
    [data |-> << <<"Q","U","J","D">>, "base64" >>, owner |-> toBase58(Key1),
     executable |-> TRUE, lamports |-> 2]
EntryBase58 ==
    [data |-> << <<"2","g">>, "base58" >>, owner |-> toBase58(Key1),
     executable |-> FALSE, lamports |-> 1]

RawEntries == {Null, Some(EntryA), Some(EntryBase58)}

\* the remote's entries for a key list, one per key, in request order
Entries(keys) == [i \in 1..Len(keys) |-> ledger[keys[i]]]

ValueResponse(value) ==
    [rejected |-> Null, error |-> Null, result |-> Some([value |-> value])]
ErrorResponse(message) ==
    [rejected |-> Null, error |-> Some([message |-> message]), result |-> Null]
EmptyResponse == [rejected |-> Null, error |-> Null, result |-> Null]
Rejection     == [rejected |-> Some(TransportError), error |-> Null, result |-> Null]

\* the ways _rpcRequest may settle: the remote's entries, one too few, one
\* too many, an error object, an envelope with neither error nor result, a
\* transport failure
ResponseKinds == {"value", "short", "long", "error", "empty", "rejection"}

Response(kind, keys) ==
    CASE kind = "value"     -> ValueResponse(Entries(keys))
      [] kind = "short"     -> ValueResponse(SubSeq(Entries(keys), 1, Len(keys) - 1))
      [] kind = "long"      -> ValueResponse(Append(Entries(keys), Some(EntryB)))
      [] kind = "error"     -> ErrorResponse(<<"boom">>)
      [] kind = "empty"     -> EmptyResponse
      [] kind = "rejection" -> Rejection

----------------------------------------------------------------------------
(* Inputs *)

Lengths ==
    {0, 1} \cup { q * GET_MULTIPLE_ACCOUNTS_LIMIT + r :
                    q \in 1..(MaxBatches - 1), r \in {0, 1} }

Seeds == { <<Key1, Key2>>, <<Key2, Key1, Key1>> }

Cycle(seed, n) == [i \in 1..n |-> seed[((i - 1) % Len(seed)) + 1]]

Inputs == { Cycle(seed, n) : seed \in Seeds, n \in Lengths }

----------------------------------------------------------------------------
(* The state machine *)

Init ==
    /\ connection \in [commitment : {Null, Some("finalized")}]
    /\ ledger \in [Keys -> RawEntries]
    /\ publicKeys \in Inputs
    /\ commitment \in {Null, Some("confirmed")}
    /\ calls = 0
    /\ requests = <<>>
    /\ core = <<>>
    /\ outcome = NoCall
    /\ answers = <<>>
    /\ previous = Null

\* getMultipleAccounts(connection, publicKeys, commitment) up to its await:
\* every getMultipleAccountsCore it starts has issued its request
Start ==
    LET bs == Batches(publicKeys)
    IN  /\ calls' = calls + 1
        /\ requests' = [i \in 1..StartedCount(bs) |->
                           RpcRequest(bs[i], commitment, connection)]
        /\ core' = [i \in 1..Len(bs) |->
                       IF i <= StartedCount(bs) THEN Pending ELSE Idle]
        /\ outcome' = Pending
        /\ UNCHANGED <<connection, ledger, publicKeys, commitment>>

\* the first call
Call ==
    /\ calls = 0
    /\ Start
    /\ answers' = [i \in 1..Len(Batches(publicKeys)) |-> Null]
    /\ previous' = Null

\* the same call made again, once every request of the call before settled
CallAgain ==
    /\ calls > 0
    /\ calls + 1 \in CallIds
    /\ \A i \in 1..Len(core) : core[i].state # "pending"
    /\ Start
    /\ previous' = Some([state |-> outcome.state, value |-> outcome.value])
    /\ UNCHANGED answers

\* the i-th _rpcRequest settles and getMultipleAccountsCore runs to its end;
\* a request of a later call is answered as it was in the first call
Respond(i) ==
    /\ i \in 1..Len(core)
    /\ core[i].state = "pending"
    /\ \E kind \in ResponseKinds :
        LET keys == Batches(publicKeys)[i]
        IN  /\ answers[i] # Null => kind = answers[i][1]
            /\ kind = "short" => Len(keys) > 0
            /\ answers' = [answers EXCEPT ![i] = Some(kind)]
            /\ core' = [core EXCEPT ![i] = CoreSettle(keys, Response(kind, keys))]
    /\ outcome' = IF outcome.state = "pending"
                  THEN FetchSettle(publicKeys, core', i) ELSE outcome
    /\ UNCHANGED <<connection, ledger, publicKeys, commitment, calls, requests,
                   previous>>

Next == Call \/ \E i \in 1..MaxBatches : Respond(i)

Spec == Init /\ [][Next]_vars

\* the fetch called twice
NextTwice == Call \/ CallAgain \/ \E i \in 1..MaxBatches : Respond(i)

SpecTwice == Init /\ [][NextTwice]_vars

----------------------------------------------------------------------------
(* Properties *)

Called == calls > 0

Batched == Len(publicKeys) > GET_MULTIPLE_ACCOUNTS_LIMIT

\* the number of batches an input of n keys needs
Ceil(n, d) == (n + d - 1) \div d

\* the keys of the i-th request, by position in the input list
ChunkKeys(i) ==
    SubSeq(publicKeys,
           (i - 1) * GET_MULTIPLE_ACCOUNTS_LIMIT + 1,
           IF Batched THEN Min(i * GET_MULTIPLE_ACCOUNTS_LIMIT, Len(publicKeys))
           ELSE Len(publicKeys))

\* known plaintexts: the base-58 form of the two keys, the two accounts
KnownBase58(key) == IF key = Key1 THEN <<"1", "2">> ELSE <<"5", "R">>

AccountA ==
    [executable |-> FALSE, owner |-> Key2, lamports |-> 1, data |-> <<65>>]
AccountB ==
    [executable |-> TRUE, owner |-> Key1, lamports |-> 2, data |-> <<65, 66, 67>>]

KnownAccount(entry) == IF entry = EntryA THEN AccountA ELSE AccountB

\* the known base-58 forms of keys, joined with ", "
KnownKeyList(keys) ==
    [p \in 1..(IF keys = <<>> THEN 0 ELSE 4 * Len(keys) - 2) |->
        LET key == keys[((p - 1) \div 4) + 1]
            at  == (p - 1) % 4
        IN  CASE at = 0 -> KnownBase58(key)[1]
              [] at = 1 -> KnownBase58(key)[2]
              [] at = 2 -> ","
              [] at = 3 -> " "]

Contains(str, part) ==
    \E at \in 0..(Len(str) - Len(part)) : SubSeq(str, at + 1, at + Len(part)) = part

Answered(i, kinds) == answers[i] # Null /\ answers[i][1] \in kinds

\* the entries the remote sent for the i-th request
SentEntries(i) == Response(answers[i][1], ChunkKeys(i)).result[1].value

\* the i-th response is malformed: no result, or a present entry not base64
Malformed(i) ==
    \/ Answered(i, {"empty"})
    \/ /\ Answered(i, {"value", "short", "long"})
       /\ \E p \in 1..Len(SentEntries(i)) :
            SentEntries(i)[p] # Null /\ SentEntries(i)[p][1].data[2] # "base64"

\* C1: when every response holds one entry per requested key in request
\* order, a returned list has, at every position i of the input, null exactly
\* when the remote's entry for publicKeys[i] is null, and otherwise the record
\* of publicKeys[i] with the decoded entry of that key
C1_SlotsFollowInput ==
    (/\ outcome.state = "fulfilled"
     /\ \A i \in 1..Len(core) : Answered(i, {"value"}))
    => /\ Len(outcome.value) = Len(publicKeys)
       /\ \A p \in 1..Len(publicKeys) :
            LET entry == ledger[publicKeys[p]]
            IN  IF entry = Null THEN outcome.value[p] = Null
                ELSE outcome.value[p] =
                       Some([publicKey |-> publicKeys[p],
                             account   |-> KnownAccount(entry[1])])

C1_Witness ==
    /\ Called /\ Batched
    /\ outcome.state = "fulfilled"
    /\ \A i \in 1..Len(core) : Answered(i, {"value"})
    /\ ledger[Key1] = Null
    /\ ledger[Key2] # Null
    /\ publicKeys[Len(publicKeys)] = Key2

\* C2: once the call of any chunk has failed (rejection or error object) the
\* fetch has failed: it holds no list, and no request is issued beyond the
\* one per batch issued at the call
C2_FailureFailsFetch ==
    Called =>
      /\ Len(requests) = Len(core)
      /\ (\E i \in 1..Len(core) : Answered(i, {"error", "rejection"}))
           => outcome.state = "rejected" /\ outcome.value = <<>>

C2_Witness ==
    /\ Called /\ Batched
    /\ Answered(1, {"value"}) /\ core[1].state = "fulfilled"
    /\ Answered(2, {"error"})
    /\ outcome.state = "rejected"

\* C3: the error of a chunk answered with an error object carries the
\* remote's message and the base-58 keys of that chunk's request joined with
\* ", " (in a batched fetch not the keys of the whole list), and it is the
\* fetch's error whenever the fetch fails with an Error
C3_ErrorNamesChunk ==
    /\ \A i \in 1..Len(core) :
         Answered(i, {"error"}) =>
           /\ core[i].state = "rejected"
           /\ core[i].reason[1].message =
                <<"failed to get info about accounts ">>
                \o KnownKeyList(ChunkKeys(i)) \o <<": ", "boom">>
           /\ Contains(core[i].reason[1].message, <<"boom">>)
           /\ Contains(core[i].reason[1].message, KnownKeyList(ChunkKeys(i)))
           /\ Batched => ~Contains(core[i].reason[1].message, KnownKeyList(publicKeys))
    /\ (outcome.state = "rejected" /\ outcome.reason[1].name = "Error")
         => \E i \in 1..Len(core) :
              Answered(i, {"error"}) /\ outcome.reason = core[i].reason

C3_Witness ==
    /\ Called /\ Batched
    /\ Answered(2, {"error"})
    /\ Answered(1, {"value"}) /\ core[1].state = "fulfilled"
    /\ outcome.state = "rejected"
    /\ outcome.reason = core[2].reason

\* C4: a returned list is as long as the input list
C4_LengthPreserved ==
    outcome.state = "fulfilled" => Len(outcome.value) = Len(publicKeys)

\* C5: a fetch of L keys issues ceil(L/99) requests, each of 1 to 99 keys,
\* whose key lists concatenated in order are the input list
C5_RequestsPerChunk ==
    Called =>
      /\ Len(requests) = Ceil(Len(publicKeys), GET_MULTIPLE_ACCOUNTS_LIMIT)
      /\ \A i \in 1..Len(requests) :
           /\ Len(requests[i].args[1]) \in 1..GET_MULTIPLE_ACCOUNTS_LIMIT
           /\ requests[i].args[1] =
                [p \in 1..Len(ChunkKeys(i)) |-> KnownBase58(ChunkKeys(i)[p])]

\* C6: every request carries the per-call commitment when one is given,
\* otherwise the connection's default when one is set, otherwise nothing
\* after the key array
C6_CommitmentResolution ==
    \A i \in 1..Len(requests) :
       Tail(requests[i].args) =
         IF commitment # Null THEN << [commitment |-> commitment[1]] >>
         ELSE IF connection.commitment # Null
         THEN << [commitment |-> connection.commitment[1]] >>
         ELSE <<>>

C6_Witness ==
    /\ Len(requests) > 1
    /\ commitment # Null
    /\ connection.commitment # Null

\* C7: once a chunk's response is malformed (no result payload, or a present
\* entry whose encoding tag is not "base64") that chunk's call and the fetch
\* have failed, and the fetch holds no list
C7_MalformedFailsFetch ==
    \A i \in 1..Len(core) :
       Malformed(i) =>
         /\ core[i].state = "rejected"
         /\ outcome.state = "rejected"
         /\ outcome.value = <<>>

C7_Witness ==
    /\ Called /\ Batched
    /\ Answered(1, {"value"}) /\ Malformed(1)
    /\ Answered(2, {"value"}) /\ core[2].state = "fulfilled"
    /\ outcome.state = "rejected"

\* C8: the second call, answered as the first was, ends as the first did:
\* the same list, or a failure both times
C8_SameOutcomeTwice ==
    (previous # Null /\ Settled(outcome)) =>
       /\ outcome.state = previous[1].state
       /\ outcome.value = previous[1].value

C8_Witness ==
    /\ Called /\ Batched
    /\ previous # Null
    /\ previous[1].state = "fulfilled"
    /\ outcome.state = "fulfilled"
    /\ \E p \in 1..Len(outcome.value) : outcome.value[p] # Null

\* C9: in a batched fetch every chunk's request has been issued by the time
\* any response is processed, and a list is returned only when every chunk's
\* call has completed successfully
C9_AllIssuedAllAwaited ==
    (Called /\ Batched) =>
      /\ Len(requests) = Ceil(Len(publicKeys), GET_MULTIPLE_ACCOUNTS_LIMIT)
      /\ \A i \in 1..Len(core) : core[i].state # "idle"
      /\ outcome.state = "fulfilled"
           => \A i \in 1..Len(core) : core[i].state = "fulfilled"

C9_Witness ==
    /\ Called /\ Batched
    /\ core[2].state = "fulfilled"
    /\ core[1].state = "pending"
    /\ outcome.state = "pending"

\* C10: the first chunk failure fails the fetch in the very step it resolves,
\* with that chunk's error, while the other calls stay as they are (those in
\* flight stay in flight); and once the fetch has ended nothing that arrives
\* later changes its outcome
C10_FirstFailureWins ==
    [][ calls' = calls =>
          /\ \A i \in 1..Len(core) :
               (/\ outcome.state = "pending"
                /\ core[i].state = "pending"
                /\ core'[i].state = "rejected")
               => /\ outcome' = Rejected(core'[i].reason[1])
                  /\ \A j \in 1..Len(core) : j # i => core'[j] = core[j]
          /\ Settled(outcome) => outcome' = outcome ]_vars

C10_Witness ==
    /\ Called /\ Batched
    /\ core[1].state = "rejected"
    /\ core[2].state = "rejected"
    /\ outcome.state = "rejected"
    /\ outcome.reason = core[2].reason
    /\ outcome.reason # core[1].reason

====
